---------------------------- MODULE Spec2Model ----------------------------
(***************************************************************************)
(* A model of the static evaluation core of the solar front end:           *)
(*   - crates/ast/src/ast/semver.rs : version model and requirement        *)
(*     matcher (pure functions),                                            *)
(*   - crates/sema/src/eval.rs      : the constant evaluator and its       *)
(*     256-bit scalar arithmetic.                                           *)
(* Three specifications share the variables: SemverSpec applies the        *)
(* matcher to bounded inputs, Spec drives one ConstantEvaluator through    *)
(* sessions of top-level eval calls, FoldSpec folds binary operations on   *)
(* literals and ternaries, one call per behaviour.                         *)
(***************************************************************************)
EXTENDS Integers, Sequences, FiniteSets, TLC

VARIABLES
    \* ---- semver.rs: the last matcher call ----
    semverOp,     \* "none" | "cmp" | "matches": which operation ran last
    version,      \* the tested version (`self` / `version` / `a`)
    other,        \* the version compared against by cmp
    ordering,     \* result of SemverVersion::cmp(version, other)
    req,          \* the SemverReq last matched (its `dis` list)
    matched,      \* result of SemverReq::matches(req, version)
    \* ---- eval.rs: one ConstantEvaluator and the diagnostics sink ----
    depth,        \* ConstantEvaluator::depth
    diags,        \* the diagnostics gcx.dcx() holds, in order of emission
    phase,        \* "idle" between eval calls, "running" inside one
    stack,        \* the activations of eval_expr, innermost last
    ret,          \* the result the activation that just ended returned
    returned,     \* what the last eval call returned
    lastExpr,     \* the expression passed to the last eval call
    \* ---- history, kept for the properties ----
    calls,        \* number of eval calls made so far
    uses,         \* number of eval calls made on this evaluator instance
    raw,          \* what the outermost eval_expr of the last call returned
    trace,        \* spans eval_expr was entered for during the last call
    peak,         \* most activations of eval_expr at once in the last call
    sinkAtCall    \* the sink when the last eval call began

semverVars == <<semverOp, version, other, ordering, req, matched>>
evalVars == <<depth, diags, phase, stack, ret, returned, lastExpr,
              calls, uses, raw, trace, peak, sinkAtCall>>

vars == <<semverOp, version, other, ordering, req, matched,
          depth, diags, phase, stack, ret, returned, lastExpr,
          calls, uses, raw, trace, peak, sinkAtCall>>

(***************************************************************************)
(* Bounds of the semver inputs.                                            *)
(***************************************************************************)
MaxNum == 3        \* version numbers range over 0..MaxNum
MaxRangeNum == 1   \* numbers of the end points of Range components
MaxDis == 2        \* conjunctions per requirement (structured requirements)
MaxCon == 2        \* components per conjunction (structured requirements)

(***************************************************************************)
(* semver.rs: SemverVersionNumber, Option, SemverVersion                   *)
(***************************************************************************)
Number(n) == [kind |-> "Number", n |-> n]
Wildcard == [kind |-> "Wildcard"]

Some(x) == [some |-> TRUE, val |-> x]
None == [some |-> FALSE]

SemverVersion(major, minor, patch) == [major |-> major, minor |-> minor, patch |-> patch]

\* impl Ord for SemverVersionNumber
SemverVersionNumber_cmp(a, b) ==
    IF a.kind = "Wildcard" \/ b.kind = "Wildcard" THEN "Equal"
    ELSE IF a.n < b.n THEN "Less"
    ELSE IF a.n > b.n THEN "Greater"
    ELSE "Equal"

\* fn cmp_opt, local to SemverVersion::cmp
cmp_opt(a, b) ==
    IF a.some /\ b.some THEN SemverVersionNumber_cmp(a.val, b.val) ELSE "Equal"

\* Ordering::then_with
then_with(o, next) == IF o = "Equal" THEN next ELSE o

\* impl Ord for SemverVersion
SemverVersion_cmp(a, b) ==
    then_with(then_with(SemverVersionNumber_cmp(a.major, b.major),
                        cmp_opt(a.minor, b.minor)),
              cmp_opt(a.patch, b.patch))

\* impl PartialEq for SemverVersion
SemverVersion_eq(a, b) == SemverVersion_cmp(a, b) = "Equal"

\* a.major > SemverVersionNumber::Number(0), through PartialOrd
MajorAboveZero(a) == SemverVersionNumber_cmp(a.major, Number(0)) = "Greater"

(***************************************************************************)
(* semver.rs: requirement components and the matcher                       *)
(***************************************************************************)
Ops == {"Exact", "Greater", "GreaterEq", "Less", "LessEq", "Tilde", "Caret", "Wildcard"}

\* SemverReqComponentKind::Op(Option<Op>, SemverVersion)
OpComponent(op, v) == [kind |-> "Op", op |-> op, version |-> v]
\* SemverReqComponentKind::Range(SemverVersion, SemverVersion)
RangeComponent(l, r) == [kind |-> "Range", start |-> l, end |-> r]

RECURSIVE matches_op(_, _, _)

\* matches_tilde with the patch of the tested version kept
matches_tilde_keeps_patch(a, b) ==
    IF ~matches_op("GreaterEq", a, b) THEN FALSE
    ELSE matches_op("LessEq", a, b)

\* fn matches_tilde
matches_tilde(a, b) ==
    IF ~matches_op("GreaterEq", a, b) THEN FALSE
    ELSE LET a2 == [a EXCEPT !.patch = None]
         IN  matches_op("LessEq", a2, b)

\* matches_caret with the minor of the tested version never cleared
matches_caret_keeps_minor(a, b) ==
    IF ~matches_op("GreaterEq", a, b) THEN FALSE
    ELSE LET a2 == [a EXCEPT !.patch = None]
         IN  matches_op("LessEq", a2, b)

\* fn matches_caret
matches_caret(a, b) ==
    IF ~matches_op("GreaterEq", a, b) THEN FALSE
    ELSE LET a1 == IF MajorAboveZero(a) THEN [a EXCEPT !.minor = None] ELSE a
             a2 == [a1 EXCEPT !.patch = None]
         IN  matches_op("LessEq", a2, b)

\* fn matches_op
matches_op(op, a, b) ==
    CASE op = "Exact"     -> SemverVersion_eq(a, b)
      [] op = "Greater"   -> SemverVersion_cmp(a, b) = "Greater"
      [] op = "GreaterEq" -> SemverVersion_cmp(a, b) # "Less"
      [] op = "Less"      -> SemverVersion_cmp(a, b) = "Less"
      [] op = "LessEq"    -> SemverVersion_cmp(a, b) # "Greater"
      [] op = "Tilde"     -> matches_tilde(a, b)
      [] op = "Caret"     -> matches_caret(a, b)
      [] op = "Wildcard"  -> TRUE
      [] OTHER            -> FALSE

\* Option::unwrap_or
unwrap_or(o, d) == IF o.some THEN o.val ELSE d

\* SemverReqComponentKind::matches with a Range that excludes its start
SemverReqComponentKind_matches_open_start(c, v) ==
    IF c.kind = "Op"
    THEN matches_op(unwrap_or(c.op, "Exact"), v, c.version)
    ELSE matches_op("Greater", v, c.start) /\ matches_op("LessEq", v, c.end)

\* SemverReqComponentKind::matches (SemverReqComponent::matches delegates to it)
SemverReqComponentKind_matches(c, v) ==
    IF c.kind = "Op"
    THEN matches_op(unwrap_or(c.op, "Exact"), v, c.version)
    ELSE matches_op("GreaterEq", v, c.start) /\ matches_op("LessEq", v, c.end)

\* Iterator::all over the components, left to right, stopping at the first miss
RECURSIVE all_from(_, _, _)
all_from(components, i, v) ==
    IF i > Len(components) THEN TRUE
    ELSE IF ~SemverReqComponentKind_matches(components[i], v) THEN FALSE
    ELSE all_from(components, i + 1, v)

\* SemverReqCon::matches
SemverReqCon_matches(con, v) == all_from(con, 1, v)

\* Iterator::any over the conjunctions, left to right, stopping at the first hit
RECURSIVE any_from(_, _, _)
any_from(dis, i, v) ==
    IF i > Len(dis) THEN FALSE
    ELSE IF SemverReqCon_matches(dis[i], v) THEN TRUE
    ELSE any_from(dis, i + 1, v)

\* SemverReq::matches
SemverReq_matches(r, v) == any_from(r, 1, v)

(***************************************************************************)
(* Bounded inputs of the matcher                                          *)
(***************************************************************************)
Numbers(max) == {Number(n) : n \in 0..max}
VersionNumbers(max) == Numbers(max) \cup {Wildcard}
OptNumbers(max) == {Some(x) : x \in VersionNumbers(max)} \cup {None}

\* every version the type admits, with numbers up to max
VersionsUpTo(max) ==
    {SemverVersion(ma, mi, pa) :
        ma \in VersionNumbers(max), mi \in OptNumbers(max), pa \in OptNumbers(max)}
Versions == VersionsUpTo(MaxNum)

\* fully numeric three-component versions
NumericUpTo(max) ==
    {SemverVersion(Number(x), Some(Number(y)), Some(Number(z))) :
        x \in 0..max, y \in 0..max, z \in 0..max}

OptOps == {Some(o) : o \in Ops} \cup {None}

OpComponents == {OpComponent(o, v) : o \in OptOps, v \in Versions}
RangeComponents ==
    {RangeComponent(l, r) : l \in NumericUpTo(MaxRangeNum), r \in NumericUpTo(MaxRangeNum)}

\* the components the structured requirements are built from: `>=1.1`, `0.*.1`
PoolComponents ==
    { OpComponent(Some("GreaterEq"), SemverVersion(Number(1), Some(Number(1)), None)),
      OpComponent(None, SemverVersion(Number(0), Some(Wildcard), Some(Number(1)))) }

SeqsUpTo(S, n) == UNION {[1..k -> S] : k \in 1..n}

\* one-component requirements over every component, and structured ones
SingleReqs == {<<<<c>>>> : c \in OpComponents \cup RangeComponents}
StructuredReqs == SeqsUpTo(SeqsUpTo(PoolComponents, MaxCon), MaxDis)

(***************************************************************************)
(* SemverSpec: the matcher applied to bounded inputs                       *)
(***************************************************************************)
DefaultVersion == SemverVersion(Number(0), None, None)

SemverIdle ==
    /\ semverOp = "none"
    /\ other = DefaultVersion
    /\ ordering = "Equal"
    /\ req = <<>>
    /\ matched = FALSE

\* version.cmp(&b): one call on the inputs drawn
Cmp(b) ==
    /\ semverOp = "none"
    /\ semverOp' = "cmp"
    /\ other' = b
    /\ ordering' = SemverVersion_cmp(version, b)
    /\ UNCHANGED <<version, req, matched>>
    /\ UNCHANGED evalVars

\* r.matches(&version): one call on the inputs drawn
Matches(r) ==
    /\ semverOp = "none"
    /\ semverOp' = "matches"
    /\ req' = r
    /\ matched' = SemverReq_matches(r, version)
    /\ UNCHANGED <<version, other, ordering>>
    /\ UNCHANGED evalVars

CmpAny == semverOp = "none" /\ \E b \in Versions : Cmp(b)
MatchesSingle == semverOp = "none" /\ \E r \in SingleReqs : Matches(r)
MatchesStructured == semverOp = "none" /\ \E r \in StructuredReqs : Matches(r)

(***************************************************************************)
(* Unsigned integers as little-endian byte strings without leading zero    *)
(* bytes (the empty string is 0): the values of alloy_primitives::U256 and *)
(* of the literals' magnitudes.                                            *)
(***************************************************************************)
ByteBase == 256      \* a u8 digit
WordBytes == 32      \* bytes of a U256

\* TRUE; conjoined to a loop's test it makes the model checker compute the
\* loop's accumulators at every step instead of all at once at the end
Strict(x) == x = x

RECURSIVE Trim(_)
Trim(s) ==
    IF s = <<>> THEN s
    ELSE IF s[Len(s)] = 0 THEN Trim(SubSeq(s, 1, Len(s) - 1))
    ELSE s

Reverse(s) == [i \in 1..Len(s) |-> s[Len(s) + 1 - i]]

Digit(s, i) == IF i <= Len(s) THEN s[i] ELSE 0

RECURSIVE NatCmpFrom(_, _, _)
NatCmpFrom(a, b, i) ==
    IF i = 0 THEN "Equal"
    ELSE IF a[i] < b[i] THEN "Less"
    ELSE IF a[i] > b[i] THEN "Greater"
    ELSE NatCmpFrom(a, b, i - 1)

NatCmp(a, b) ==
    IF Len(a) < Len(b) THEN "Less"
    ELSE IF Len(a) > Len(b) THEN "Greater"
    ELSE NatCmpFrom(a, b, Len(a))

RECURSIVE NatAddFrom(_, _, _, _, _)
NatAddFrom(a, b, i, carry, acc) ==
    IF Strict(acc) /\ i > Len(a) /\ i > Len(b)
    THEN IF carry = 0 THEN acc ELSE Append(acc, carry)
    ELSE LET t == Digit(a, i) + Digit(b, i) + carry
         IN  NatAddFrom(a, b, i + 1, t \div ByteBase, Append(acc, t % ByteBase))

NatAdd(a, b) == NatAddFrom(a, b, 1, 0, <<>>)

\* a - b, for a >= b
RECURSIVE NatSubFrom(_, _, _, _, _)
NatSubFrom(a, b, i, borrow, acc) ==
    IF Strict(acc) /\ i > Len(a) THEN Trim(acc)
    ELSE LET t == a[i] - Digit(b, i) - borrow
         IN  IF t < 0 THEN NatSubFrom(a, b, i + 1, 1, Append(acc, t + ByteBase))
             ELSE NatSubFrom(a, b, i + 1, 0, Append(acc, t))

NatSub(a, b) == NatSubFrom(a, b, 1, 0, <<>>)

\* a * d for one digit d
RECURSIVE NatMulDigitFrom(_, _, _, _, _)
NatMulDigitFrom(a, d, i, carry, acc) ==
    IF Strict(acc) /\ i > Len(a)
    THEN IF carry = 0 THEN acc ELSE Append(acc, carry)
    ELSE LET t == a[i] * d + carry
         IN  NatMulDigitFrom(a, d, i + 1, t \div ByteBase, Append(acc, t % ByteBase))

NatMulDigit(a, d) == IF d = 0 THEN <<>> ELSE NatMulDigitFrom(a, d, 1, 0, <<>>)

\* a * ByteBase^k
NatShiftBytes(a, k) == IF a = <<>> THEN a ELSE [i \in 1..k |-> 0] \o a

RECURSIVE NatMulFrom(_, _, _, _)
NatMulFrom(a, b, i, acc) ==
    IF Strict(acc) /\ i > Len(b) THEN acc
    ELSE NatMulFrom(a, b, i + 1,
                    NatAdd(acc, NatShiftBytes(NatMulDigit(a, b[i]), i - 1)))

NatMul(a, b) == NatMulFrom(a, b, 1, <<>>)

\* the largest digit q in lo..hi with b * q <= r (b * lo <= r is given)
RECURSIVE QuotientDigit(_, _, _, _)
QuotientDigit(r, b, lo, hi) ==
    IF lo = hi THEN lo
    ELSE LET mid == (lo + hi + 1) \div 2
         IN  IF NatCmp(NatMulDigit(b, mid), r) = "Greater"
             THEN QuotientDigit(r, b, lo, mid - 1)
             ELSE QuotientDigit(r, b, mid, hi)

\* long division of a by b # 0, most significant digit first
RECURSIVE NatDivModFrom(_, _, _, _, _)
NatDivModFrom(a, b, i, q, r) ==
    IF Strict(<<q, r>>) /\ i = 0 THEN [q |-> Trim(Reverse(q)), r |-> r]
    ELSE LET r1 == Trim(<<a[i]>> \o r)
             d  == QuotientDigit(r1, b, 0, ByteBase - 1)
         IN  NatDivModFrom(a, b, i - 1, Append(q, d), NatSub(r1, NatMulDigit(b, d)))

NatDivMod(a, b) == NatDivModFrom(a, b, Len(a), <<>>, <<>>)

\* the low `n` bytes of a
NatLow(a, n) == Trim(SubSeq(a, 1, IF Len(a) < n THEN Len(a) ELSE n))

\* a natural number of the model checker as a byte string, and back
RECURSIVE NatOf(_)
NatOf(n) == IF n = 0 THEN <<>> ELSE <<n % ByteBase>> \o NatOf(n \div ByteBase)

RECURSIVE IntOf(_)
IntOf(s) == IF s = <<>> THEN 0 ELSE s[1] + ByteBase * IntOf(Tail(s))

\* 2^k as a byte string
RECURSIVE Pow2Int(_)
Pow2Int(k) == IF k = 0 THEN 1 ELSE 2 * Pow2Int(k - 1)
NatPow2(k) == NatShiftBytes(<<Pow2Int(k % 8)>>, k \div 8)

\* 2^256 - 1
U256_MAX == [i \in 1..WordBytes |-> ByteBase - 1]

(***************************************************************************)
(* alloy_primitives::U256 as eval.rs uses it: a value is a byte string of  *)
(* at most WordBytes bytes.                                                *)
(***************************************************************************)
U256_ZERO == <<>>
U256_ONE == <<1>>

\* U256::from_be_slice
from_be_slice(bytes) == Trim(Reverse(bytes))

\* U256::is_zero
is_zero(x) == x = U256_ZERO

\* U256::checked_add / checked_sub / checked_mul: None when out of range
checked_add(l, r) ==
    LET s == NatAdd(l, r) IN IF Len(s) > WordBytes THEN None ELSE Some(s)

\* U256::wrapping_sub in the place of checked_sub
wrapping_sub(l, r) ==
    IF NatCmp(l, r) = "Less" THEN Some(NatSub(NatAdd(U256_MAX, NatAdd(l, U256_ONE)), r))
    ELSE Some(NatSub(l, r))

checked_sub(l, r) ==
    IF NatCmp(l, r) = "Less" THEN None ELSE Some(NatSub(l, r))

checked_mul(l, r) ==
    LET p == NatMul(l, r) IN IF Len(p) > WordBytes THEN None ELSE Some(p)

\* U256::overflowing_mul: the wrapped product and whether it wrapped
overflowing_mul(l, r) ==
    LET p == NatMul(l, r) IN [val |-> NatLow(p, WordBytes), of |-> Len(p) > WordBytes]

\* exp >> 1 and exp.bit(0)
NatHalf(x) == NatDivMod(x, <<2>>).q
NatOdd(x) == x # <<>> /\ x[1] % 2 = 1

\* U256::overflowing_pow: exponentiation by squaring on wrapped values,
\* remembering whether a factor that was used had wrapped
RECURSIVE overflowing_pow_loop(_, _, _, _, _)
overflowing_pow_loop(base, exp, result, overflow, base_overflow) ==
    IF Strict(<<base, result, overflow, base_overflow>>) /\ exp = U256_ZERO
    THEN [val |-> result, of |-> overflow]
    ELSE LET m == overflowing_mul(result, base)
             res1 == IF NatOdd(exp) THEN m.val ELSE result
             of1 == IF NatOdd(exp) THEN overflow \/ m.of \/ base_overflow ELSE overflow
             sq == overflowing_mul(base, base)
         IN  overflowing_pow_loop(sq.val, NatHalf(exp), res1, of1, base_overflow \/ sq.of)

\* U256::checked_pow
checked_pow(l, r) ==
    LET p == overflowing_pow_loop(l, r, U256_ONE, FALSE, FALSE)
    IN  IF p.of THEN None ELSE Some(p.val)

\* U256::checked_div / checked_rem: None when the divisor is zero
checked_div(l, r) == IF is_zero(r) THEN None ELSE Some(NatDivMod(l, r).q)
checked_rem(l, r) == IF is_zero(r) THEN None ELSE Some(NatDivMod(l, r).r)

\* !x on 256 bits
U256_not(x) == NatSub(U256_MAX, x)

\* U256::wrapping_neg
wrapping_neg(x) == IF is_zero(x) THEN x ELSE NatAdd(U256_not(x), U256_ONE)

\* one bit operation on two bytes
RECURSIVE ByteBits(_, _, _, _)
ByteBits(op, x, y, n) ==
    IF n = 0 THEN 0
    ELSE LET bx == x % 2
             by == y % 2
             b  == CASE op = "or"  -> IF bx + by > 0 THEN 1 ELSE 0
                      [] op = "and" -> bx * by
                      [] op = "xor" -> (bx + by) % 2
         IN  b + 2 * ByteBits(op, x \div 2, y \div 2, n - 1)

\* l | r, l & r, l ^ r
U256_bits(op, l, r) ==
    LET n == IF Len(l) > Len(r) THEN Len(l) ELSE Len(r)
    IN  Trim([i \in 1..n |-> ByteBits(op, Digit(l, i), Digit(r, i), 8)])

\* r.data.try_into().unwrap_or(usize::MAX) as a shift count: every count of
\* 256 or more shifts all bits out
ShiftsAllOut(r) == Len(r) > 1

\* U256::wrapping_shl / wrapping_shr / arithmetic_shr
wrapping_shl(l, r) ==
    IF ShiftsAllOut(r) THEN U256_ZERO
    ELSE NatLow(NatMul(l, NatPow2(IntOf(r))), WordBytes)

wrapping_shr(l, r) ==
    IF ShiftsAllOut(r) THEN U256_ZERO
    ELSE NatDivMod(l, NatPow2(IntOf(r))).q

SignBit(l) == Len(l) = WordBytes /\ l[WordBytes] >= ByteBase \div 2

arithmetic_shr(l, r) ==
    IF SignBit(l) THEN U256_not(wrapping_shr(U256_not(l), r))
    ELSE wrapping_shr(l, r)

(***************************************************************************)
(* eval.rs: IntScalar, EvalErrorKind, EvalError                            *)
(***************************************************************************)
RECURSION_LIMIT == 64

DUMMY == 0   \* Span::DUMMY

Ok(v) == [ok |-> TRUE, val |-> v]
Err(e) == [ok |-> FALSE, err |-> e]

\* EvalErrorKind; AlreadyEmitted carries the ErrorGuaranteed token
EE(name) == [name |-> name]
AlreadyEmitted(guar) == [name |-> "AlreadyEmitted", guar |-> guar]

\* EvalErrorKind::spanned
spanned(kind, span) == [span |-> span, kind |-> kind]

\* impl From<EE> for EvalError
into(kind) == [span |-> DUMMY, kind |-> kind]

\* EvalErrorKind::msg
msg(kind) ==
    CASE kind.name = "RecursionLimitReached" -> "recursion limit reached"
      [] kind.name = "ArithmeticOverflow"    -> "arithmetic overflow"
      [] kind.name = "IntTooBig"             -> "integer value is too big"
      [] kind.name = "DivisionByZero"        -> "division by zero"
      [] kind.name = "UnsupportedLiteral"    -> "unsupported literal"
      [] kind.name = "UnsupportedUnaryOp"    -> "unsupported unary operation"
      [] kind.name = "UnsupportedExpr"       -> "unsupported expression"
      [] kind.name = "NonConstantVar"        -> "only constant variables are allowed"
      [] kind.name = "AlreadyEmitted"        -> "error already emitted"

IntScalar_new(data) == [data |-> data]
from_bool(b) == [data |-> IF b THEN U256_ONE ELSE U256_ZERO]
from_be_bytes(bytes) == [data |-> from_be_slice(bytes)]
to_bool(x) == ~is_zero(x.data)

\* Option::ok_or followed by `?`, then Self::new
ok_or_new(o, kind) == IF o.some THEN Ok(IntScalar_new(o.val)) ELSE Err(kind)

\* IntScalar::unop
unop(v, op) ==
    CASE op \in {"PreInc", "PreDec", "PostInc", "PostDec"} -> Err(EE("UnsupportedUnaryOp"))
      [] op \in {"Not", "BitNot"} -> Ok(IntScalar_new(U256_not(v.data)))
      [] op = "Neg" -> Ok(IntScalar_new(wrapping_neg(v.data)))

\* IntScalar::binop
binop(l, r, op) ==
    CASE op = "Lt" -> Ok(from_bool(NatCmp(l.data, r.data) = "Less"))
      [] op = "Le" -> Ok(from_bool(NatCmp(l.data, r.data) # "Greater"))
      [] op = "Gt" -> Ok(from_bool(NatCmp(l.data, r.data) = "Greater"))
      [] op = "Ge" -> Ok(from_bool(NatCmp(l.data, r.data) # "Less"))
      [] op = "Eq" -> Ok(from_bool(l.data = r.data))
      [] op = "Ne" -> Ok(from_bool(l.data # r.data))
      [] op \in {"Or", "BitOr"} -> Ok(IntScalar_new(U256_bits("or", l.data, r.data)))
      [] op \in {"And", "BitAnd"} -> Ok(IntScalar_new(U256_bits("and", l.data, r.data)))
      [] op = "BitXor" -> Ok(IntScalar_new(U256_bits("xor", l.data, r.data)))
      [] op = "Shr" -> Ok(IntScalar_new(wrapping_shr(l.data, r.data)))
      [] op = "Shl" -> Ok(IntScalar_new(wrapping_shl(l.data, r.data)))
      [] op = "Sar" -> Ok(IntScalar_new(arithmetic_shr(l.data, r.data)))
      [] op = "Add" -> ok_or_new(checked_add(l.data, r.data), EE("ArithmeticOverflow"))
      [] op = "Sub" -> ok_or_new(checked_sub(l.data, r.data), EE("ArithmeticOverflow"))
      [] op = "Pow" -> ok_or_new(checked_pow(l.data, r.data), EE("ArithmeticOverflow"))
      [] op = "Mul" -> ok_or_new(checked_mul(l.data, r.data), EE("ArithmeticOverflow"))
      [] op = "Div" -> ok_or_new(checked_div(l.data, r.data), EE("DivisionByZero"))
      [] op = "Rem" -> ok_or_new(checked_rem(l.data, r.data), EE("DivisionByZero"))

\* Result::map_err(Into::into) on the result of unop / binop
map_err_into(res) == IF res.ok THEN res ELSE Err(into(res.err))

(***************************************************************************)
(* hir: the expression trees eval.rs walks.  A span is a positive number,  *)
(* DUMMY the unset one.                                                    *)
(***************************************************************************)
Binary(s, l, op, r) == [kind |-> "Binary", span |-> s, l |-> l, op |-> op, r |-> r]
Ident(s, v) == [kind |-> "Ident", span |-> s, var |-> v]
Lit(s, lit) == [kind |-> "Lit", span |-> s, lit |-> lit]
Ternary(s, c, t, f) == [kind |-> "Ternary", span |-> s, cond |-> c, t |-> t, f |-> f]
Unary(s, op, v) == [kind |-> "Unary", span |-> s, op |-> op, v |-> v]
ErrExpr(s, guar) == [kind |-> "Err", span |-> s, guar |-> guar]
\* a parenthesized expression, hir::ExprKind::Tuple([Some(inner)])
Paren(s, inner) == [kind |-> "Paren", span |-> s, inner |-> inner]
\* a kind eval_expr_inner has no arm for
Call(s) == [kind |-> "Call", span |-> s]

\* LitKind
LitNumber(bytes) == [kind |-> "Number", bytes |-> bytes]   \* BigInt::to_bytes_be
LitAddress(bytes) == [kind |-> "Address", bytes |-> bytes]
LitBool(b) == [kind |-> "Bool", bool |-> b]
LitErr(guar) == [kind |-> "Err", guar |-> guar]
LitStr == [kind |-> "Str"]

\* BigInt::to_bytes_be of a small number: big-endian, <<0>> for zero
BytesBE(n) == IF n = 0 THEN <<0>> ELSE Reverse(NatOf(n))

Num(s, n) == Lit(s, LitNumber(BytesBE(n)))
Bool(s, b) == Lit(s, LitBool(b))

\* hir::Expr::peel_parens
RECURSIVE peel_parens(_)
peel_parens(expr) == IF expr.kind = "Paren" THEN peel_parens(expr.inner) ELSE expr

\* the token of the diagnostic an earlier phase emitted for the error nodes
UpstreamGuar == 1

\* gcx.hir.variable(v): the declarations the identifiers resolve to
Variables ==
    [ K    |-> [mutability |-> Some("Constant"),
                initializer |-> Some(Binary(101, Num(102, 1), "Div", Num(103, 0)))],
      X    |-> [mutability |-> Some("Constant"), initializer |-> Some(Num(111, 5))],
      N    |-> [mutability |-> None, initializer |-> None],
      SELF |-> [mutability |-> Some("Constant"), initializer |-> Some(Ident(121, "SELF"))],
      \* A = B and B = A
      A    |-> [mutability |-> Some("Constant"), initializer |-> Some(Ident(131, "B"))],
      B    |-> [mutability |-> Some("Constant"), initializer |-> Some(Ident(141, "A"))],
      \* DOUBLE = DOUBLE + DOUBLE
      DOUBLE |-> [mutability |-> Some("Constant"),
                  initializer |-> Some(Binary(151, Ident(152, "DOUBLE"), "Add",
                                                   Ident(153, "DOUBLE")))],
      \* FIRST = 1 / 0 + FIRST
      FIRST |-> [mutability |-> Some("Constant"),
                 initializer |-> Some(Binary(161,
                                   Binary(162, Num(163, 1), "Div", Num(164, 0)),
                                   "Add", Ident(165, "FIRST")))] ]

variable(v) == Variables[v]

(***************************************************************************)
(* eval.rs: ConstantEvaluator.  eval_expr is recursive, and the questions  *)
(* asked of it are about its nesting, so a call of eval is modelled as a   *)
(* machine that steps from one entry or exit of eval_expr to the next:     *)
(* `stack` holds the activations of eval_expr that have not returned,      *)
(* innermost last, and `ret` the result an activation has just returned.   *)
(***************************************************************************)
Max(x, y) == IF x > y THEN x ELSE y

\* fn eval_lit
eval_lit(lit) ==
    CASE lit.kind = "Number" ->
            IF Len(lit.bytes) > WordBytes THEN Err(into(EE("IntTooBig")))
            ELSE Ok(from_be_bytes(lit.bytes))
      [] lit.kind = "Address" -> Ok(from_be_bytes(lit.bytes))
      [] lit.kind = "Bool" -> Ok(from_be_bytes(<<IF lit.bool THEN 1 ELSE 0>>))
      [] lit.kind = "Err" -> Err(into(AlreadyEmitted(lit.guar)))
      [] OTHER -> Err(into(EE("UnsupportedLiteral")))

\* an activation of eval_expr(expr): `at` is "enter" before line 35 ran, else
\* the nested call of eval_expr_inner it waits in; `val` is the left operand
\* a Binary holds while its right operand is evaluated
Frame(expr, at, val) == [expr |-> expr, at |-> at, val |-> val]

\* what eval_expr_inner does next: a nested self.eval_expr(expr), or return
CallNested(expr, at, val) == [call |-> TRUE, expr |-> expr, at |-> at, val |-> val]
Done(res) == [call |-> FALSE, res |-> res]

\* `if self.depth > RECURSION_LIMIT` with the bound included
LimitReachedAtLimit(d) == d >= RECURSION_LIMIT

\* `if self.depth > RECURSION_LIMIT`
LimitReached(d) == d > RECURSION_LIMIT

\* eval_expr_inner from its start to its first nested call or its return
inner_start(outer) ==
    LET expr == peel_parens(outer) IN
    CASE expr.kind = "Binary" -> CallNested(expr.l, "l", None)
      [] expr.kind = "Ident" ->
            LET v == variable(expr.var) IN
            IF v.mutability # Some("Constant") THEN Done(Err(into(EE("NonConstantVar"))))
            ELSE CallNested(v.initializer.val, "initializer", None)
      [] expr.kind = "Lit" -> Done(eval_lit(expr.lit))
      [] expr.kind = "Ternary" -> CallNested(expr.cond, "cond", None)
      [] expr.kind = "Unary" -> CallNested(expr.v, "v", None)
      [] expr.kind = "Err" -> Done(Err(into(AlreadyEmitted(expr.guar))))
      [] OTHER -> Done(Err(into(EE("UnsupportedExpr"))))

\* the Binary arm after a nested call returned Ok(v)
binary_resume(expr, f, v) ==
    IF f.at = "l" THEN CallNested(expr.r, "r", Some(v))
    ELSE Done(map_err_into(binop(f.val.val, v, expr.op)))

\* the Ternary arm evaluating both branches before it chooses
ternary_resume_eager(expr, f, v) ==
    CASE f.at = "cond" -> CallNested(expr.t, "t", Some(<<v>>))
      [] f.at = "t" -> CallNested(expr.f, "f", Some(f.val.val \o <<v>>))
      [] OTHER -> Done(Ok(IF to_bool(f.val.val[1]) THEN f.val.val[2] ELSE v))

\* the Ternary arm after a nested call returned Ok(v)
ternary_resume(expr, f, v) ==
    IF f.at = "cond"
    THEN CallNested(IF to_bool(v) THEN expr.t ELSE expr.f, "branch", None)
    ELSE Done(Ok(v))

\* the Unary arm after its operand returned Ok(v)
unary_resume(expr, f, v) == Done(map_err_into(unop(v, expr.op)))

\* eval_expr_inner going on to the right operand of a Binary whose left
\* operand failed, with zero in the place of its value
inner_resume_goes_on(f, r) ==
    LET expr == peel_parens(f.expr) IN
    IF expr.kind = "Binary" /\ f.at = "l"
    THEN binary_resume(expr, f, IF r.ok THEN r.val ELSE IntScalar_new(U256_ZERO))
    ELSE IF ~r.ok THEN Done(r)
    ELSE CASE expr.kind = "Binary" -> binary_resume(expr, f, r.val)
           [] expr.kind = "Ternary" -> ternary_resume(expr, f, r.val)
           [] expr.kind = "Unary" -> unary_resume(expr, f, r.val)
           [] OTHER -> Done(r)

\* eval_expr_inner from the return of a nested call to the next one or to its
\* own return; `?` returns an Err at once
inner_resume(f, r) ==
    LET expr == peel_parens(f.expr) IN
    IF ~r.ok THEN Done(r)
    ELSE CASE expr.kind = "Binary" -> binary_resume(expr, f, r.val)
           [] expr.kind = "Ternary" -> ternary_resume(expr, f, r.val)
           [] expr.kind = "Unary" -> unary_resume(expr, f, r.val)
           [] OTHER -> Done(r)

\* eval_expr, lines 40-44: an error without a span gets the span of `expr`
BackFill(res, expr) ==
    IF ~res.ok /\ res.err.span = DUMMY
    THEN Err([res.err EXCEPT !.span = expr.span])
    ELSE res

\* DiagCtxt: err(msg).span(span).span_note(note_span, note)
Diagnostic(span, note_span, note) ==
    [msg |-> "evaluation of constant value failed",
     span |-> span, note_span |-> note_span, note |-> note]

\* DiagBuilder::emit: the sink takes the report and returns a token no
\* other report has, the report's place in the sink
emit(sink, diag) == [sink |-> Append(sink, diag), guar |-> Len(sink) + 1]

\* the map_err of eval emitting also for a failure that carries a token
eval_map_err_reports_again(expr, r, sink) ==
    IF r.ok THEN [result |-> Ok(r.val), sink |-> sink]
    ELSE LET e == emit(sink, Diagnostic(expr.span, r.err.span, msg(r.err.kind)))
         IN  [result |-> Err(e.guar), sink |-> e.sink]

\* fn eval, the map_err over the result of eval_expr
eval_map_err(expr, r, sink) ==
    IF r.ok THEN [result |-> Ok(r.val), sink |-> sink]
    ELSE IF r.err.kind.name = "AlreadyEmitted"
    THEN [result |-> Err(r.err.kind.guar), sink |-> sink]
    ELSE LET e == emit(sink, Diagnostic(expr.span, r.err.span, msg(r.err.kind)))
         IN  [result |-> Err(e.guar), sink |-> e.sink]

(***************************************************************************)
(* Bounds and inputs of the evaluator                                      *)
(***************************************************************************)
MaxCalls == 2      \* eval calls per behaviour
MaxSmall == 3      \* the small operands are 0..MaxSmall

\* unary negations with the spans s + lo .. s + hi around `leaf`, the
\* outermost last; built by halves
RECURSIVE NestFrom(_, _, _, _)
NestFrom(s, lo, hi, leaf) ==
    IF Strict(leaf) /\ lo > hi THEN leaf
    ELSE IF lo = hi THEN Unary(s + lo, "Neg", leaf)
    ELSE LET mid == (lo + hi) \div 2
         IN  NestFrom(s, mid + 1, hi, NestFrom(s, lo, mid, leaf))

\* `n` unary negations around `leaf`: eval_expr nests n + 1 deep on it
Nest(s, n, leaf) == NestFrom(s, 1, n, leaf)

\* the same with every operand parenthesized twice
RECURSIVE ParenNestFrom(_, _, _, _)
ParenNestFrom(s, lo, hi, leaf) ==
    IF Strict(leaf) /\ lo > hi THEN leaf
    ELSE IF lo = hi THEN Unary(s + lo, "Neg", Paren(s + lo, Paren(s + lo, leaf)))
    ELSE LET mid == (lo + hi) \div 2
         IN  ParenNestFrom(s, mid + 1, hi, ParenNestFrom(s, lo, mid, leaf))

ParenNest(s, n, leaf) == ParenNestFrom(s, 1, n, leaf)

\* a numeric literal of 33 bytes: 2^256
TooBig(s) == Lit(s, LitNumber(<<1>> \o [i \in 1..WordBytes |-> 0]))

\* the expressions the sessions of Spec evaluate; the root's span is its index
Exprs ==
    << Num(1, 7),
       Binary(2, Num(201, 2), "Add", Num(202, 3)),
       Ident(3, "K"),
       Ident(4, "N"),
       Ident(5, "X"),
       ErrExpr(6, UpstreamGuar),
       Binary(7, Num(701, 1), "Add", Unary(702, "Neg", Lit(703, LitErr(UpstreamGuar)))),
       Paren(8, Call(801)),
       Lit(9, LitStr),
       Unary(10, "PreInc", Num(1001, 1)),
       TooBig(11),
       Ident(12, "SELF"),
       Nest(1300, RECURSION_LIMIT - 1, Num(1300, 0)),
       Nest(1400, RECURSION_LIMIT, Num(1400, 0)),
       ParenNest(1500, RECURSION_LIMIT - 1, Bool(1500, TRUE)),
       Ternary(16, Bool(1601, TRUE), Num(1602, 1), Ident(1603, "N")),
       Binary(17, Ident(1701, "K"), "Add", Call(1702)),
       Binary(18, Nest(1800, RECURSION_LIMIT - 2, Num(1800, 0)), "Sub",
                  Nest(1900, RECURSION_LIMIT - 1, Num(1900, 0))) >>

ExprSet == {Exprs[i] : i \in DOMAIN Exprs}

\* BigInt::to_bytes_be of a value
ToBytesBE(x) == IF x = <<>> THEN <<0>> ELSE Reverse(x)

SmallOperands == {NatOf(n) : n \in 0..MaxSmall}
Operands ==
    SmallOperands \cup
    { NatOf(255), NatOf(256), NatPow2(128), NatPow2(255),
      NatSub(U256_MAX, <<1>>), U256_MAX }
Exponents == SmallOperands \cup {NatOf(255), NatOf(256)}

ArithOps == {"Add", "Sub", "Mul", "Div", "Rem"}

BinaryOfLits(x, op, y) ==
    Binary(1, Lit(2, LitNumber(ToBytesBE(x))), op, Lit(3, LitNumber(ToBytesBE(y))))

\* binary operations on two numeric literals
ArithExprs ==
    {BinaryOfLits(x, op, y) : x \in Operands, op \in ArithOps, y \in Operands}
    \cup {BinaryOfLits(x, "Pow", y) : x \in Operands, y \in Exponents}

\* conditions and branches of the ternaries: values, and every kind of failure
Conds(s) ==
    { Bool(s, TRUE), Bool(s, FALSE), Num(s, 0), Num(s, 2),
      Binary(s, Num(10 * s + 1, 1), "Lt", Num(10 * s + 2, 2)), Ident(s, "N") }
Branches(s, n) ==
    { Num(s, n), Ident(s, "N"), Ident(s, "K"), Call(s), Ident(s, "SELF"),
      Binary(s, Num(10 * s + 1, 1), "Div", Num(10 * s + 2, 0)) }

TernaryExprs ==
    {Ternary(1, c, t, f) : c \in Conds(2), t \in Branches(3, 1), f \in Branches(4, 2)}

(***************************************************************************)
(* Spec: sessions of top-level eval calls on one evaluator                 *)
(***************************************************************************)
NoExpr == [kind |-> "None", span |-> DUMMY]

\* the diagnostic an earlier phase emitted for the error nodes; its token is
\* UpstreamGuar, its place in the sink
UpstreamDiagnostic == [msg |-> "upstream", span |-> DUMMY, note_span |-> DUMMY, note |-> ""]

\* ConstantEvaluator::new(gcx), before any call
EvalIdle ==
    /\ depth = 0
    /\ diags = <<UpstreamDiagnostic>>
    /\ phase = "idle"
    /\ stack = <<>>
    /\ ret = None
    /\ returned = Ok(IntScalar_new(U256_ZERO))
    /\ calls = 0
    /\ uses = 0
    /\ lastExpr = NoExpr
    /\ raw = Ok(IntScalar_new(U256_ZERO))
    /\ trace = <<>>
    /\ peak = 0
    /\ sinkAtCall = <<UpstreamDiagnostic>>

Top == stack[Len(stack)]
Pop == SubSeq(stack, 1, Len(stack) - 1)

\* self.eval(expr) is called: eval calls self.eval_expr(expr)
EvalCall(expr) ==
    /\ phase = "idle"
    /\ calls < MaxCalls
    /\ phase' = "running"
    /\ stack' = <<Frame(expr, "enter", None)>>
    /\ ret' = None
    /\ calls' = calls + 1
    /\ uses' = uses + 1
    /\ lastExpr' = expr
    /\ trace' = <<>>
    /\ peak' = 0
    /\ sinkAtCall' = diags
    /\ UNCHANGED <<depth, diags, returned, raw>>
    /\ UNCHANGED semverVars

\* eval_expr is entered: the depth is counted and checked, and
\* eval_expr_inner runs to its first nested call or to its return
EnterExpr ==
    /\ phase = "running"
    /\ stack # <<>>
    /\ Top.at = "enter"
    /\ LET expr == Top.expr
           d == depth + 1
           next == inner_start(expr)
       IN  /\ trace' = Append(trace, expr.span)
           /\ peak' = Max(peak, Len(stack))
           /\ IF LimitReached(d)
              THEN /\ depth' = d
                   /\ stack' = Pop
                   /\ ret' = Some(Err(spanned(EE("RecursionLimitReached"), expr.span)))
              ELSE IF next.call
              THEN /\ depth' = d
                   /\ stack' = Append(Append(Pop, Frame(expr, next.at, next.val)),
                                      Frame(next.expr, "enter", None))
                   /\ ret' = None
              ELSE /\ depth' = d - 1
                   /\ stack' = Pop
                   /\ ret' = Some(BackFill(next.res, expr))
    /\ UNCHANGED <<diags, phase, returned, calls, uses, lastExpr, raw, sinkAtCall>>
    /\ UNCHANGED semverVars

\* a nested eval_expr returned into eval_expr_inner, which goes on to its
\* next nested call or returns through the end of eval_expr
ReturnToCaller ==
    /\ phase = "running"
    /\ stack # <<>>
    /\ Top.at # "enter"
    /\ ret # None
    /\ LET next == inner_resume(Top, ret.val)
       IN  IF next.call
           THEN /\ stack' = Append(Append(Pop, Frame(Top.expr, next.at, next.val)),
                                   Frame(next.expr, "enter", None))
                /\ ret' = None
                /\ depth' = depth
           ELSE /\ stack' = Pop
                /\ ret' = Some(BackFill(next.res, Top.expr))
                /\ depth' = depth - 1
    /\ UNCHANGED <<diags, phase, returned, calls, uses, lastExpr, raw, trace, peak, sinkAtCall>>
    /\ UNCHANGED semverVars

\* the outermost eval_expr returned: eval maps the error and returns
EvalReturn ==
    /\ phase = "running"
    /\ stack = <<>>
    /\ ret # None
    /\ LET out == eval_map_err(lastExpr, ret.val, diags)
       IN  /\ returned' = out.result
           /\ diags' = out.sink
    /\ raw' = ret.val
    /\ ret' = None
    /\ phase' = "idle"
    /\ UNCHANGED <<depth, stack, calls, uses, lastExpr, trace, peak, sinkAtCall>>
    /\ UNCHANGED semverVars

\* ConstantEvaluator::new(gcx): a fresh evaluator on the same context
NewEvaluator ==
    /\ phase = "idle"
    /\ depth' = 0
    /\ uses' = 0
    /\ UNCHANGED <<diags, phase, stack, ret, returned, calls, lastExpr, raw, trace, peak,
                   sinkAtCall>>
    /\ UNCHANGED semverVars

EvalAny == \E e \in ExprSet : EvalCall(e)

Init ==
    /\ version = DefaultVersion
    /\ SemverIdle
    /\ EvalIdle

Next == EvalAny \/ EnterExpr \/ ReturnToCaller \/ EvalReturn \/ NewEvaluator

Spec == Init /\ [][Next]_vars

(***************************************************************************)
(* FoldSpec: one eval call, on a fresh evaluator, per behaviour            *)
(***************************************************************************)
EvalArith == \E e \in ArithExprs : calls = 0 /\ EvalCall(e)
EvalTernary == \E e \in TernaryExprs : calls = 0 /\ EvalCall(e)

FoldNext == EvalArith \/ EvalTernary \/ EnterExpr \/ ReturnToCaller \/ EvalReturn

FoldSpec == Init /\ [][FoldNext]_vars

(***************************************************************************)
(* CycleSpec: sessions of eval calls on constants that refer to themselves *)
(* or to each other.  eval is synchronous code: once called it runs on     *)
(* until it returns, which is the fairness of its steps.                   *)
(***************************************************************************)
CycleExprs ==
    << Ident(1, "SELF"),
       Ident(2, "A"),
       Ident(3, "DOUBLE"),
       Ident(4, "FIRST"),
       Binary(5, Ident(51, "X"), "Add", Ident(52, "B")),
       Ternary(6, Ident(61, "X"), Ident(62, "A"), Ident(63, "N")) >>

EvalCyclic == \E i \in DOMAIN CycleExprs : EvalCall(CycleExprs[i])

EvalStep == EnterExpr \/ ReturnToCaller \/ EvalReturn

CycleNext == EvalCyclic \/ EnterExpr \/ ReturnToCaller \/ EvalReturn \/ NewEvaluator

CycleSpec == Init /\ [][CycleNext]_vars /\ WF_vars(EvalStep)

(***************************************************************************)
(* SemverSpec: one matcher call per behaviour                              *)
(***************************************************************************)
SemverInit ==
    /\ version \in Versions
    /\ SemverIdle
    /\ EvalIdle

SemverNext == CmpAny \/ MatchesSingle \/ MatchesStructured

SemverSpec == SemverInit /\ [][SemverNext]_vars

(***************************************************************************)
(* Claims about the matcher (checked under SemverSpec)                     *)
(***************************************************************************)
VGe(a, b) == SemverVersion_cmp(a, b) \in {"Greater", "Equal"}
VLe(a, b) == SemverVersion_cmp(a, b) \in {"Less", "Equal"}

IsNumeric(v) ==
    /\ v.major.kind = "Number"
    /\ v.minor.some /\ v.minor.val.kind = "Number"
    /\ v.patch.some /\ v.patch.val.kind = "Number"

Maj(v) == v.major.n
Min(v) == v.minor.val.n
Pat(v) == v.patch.val.n

V3(x, y, z) == SemverVersion(Number(x), Some(Number(y)), Some(Number(z)))

\* the requirement last matched is the single component `op b`
IsSingleOp(op) ==
    /\ semverOp = "matches"
    /\ Len(req) = 1 /\ Len(req[1]) = 1
    /\ req[1][1].kind = "Op"
    /\ req[1][1].op = Some(op)

\* a component as the claim words it
ClaimComponentMatches(c, v) ==
    IF c.kind = "Op"
    THEN IF c.op.some THEN matches_op(c.op.val, v, c.version)
                      ELSE matches_op("Exact", v, c.version)
    ELSE VGe(v, c.start) /\ VLe(v, c.end)

\* C1: matches(req, v) is true iff some conjunction of req.dis has all its
\* components matching v, where an Op component with no operator matches as
\* Exact does and Range(l, r) matches iff v >= l and v <= r.
C1_MatchesIsDNF ==
    semverOp = "matches" =>
        matched = (\E i \in DOMAIN req :
                      \A j \in DOMAIN req[i] : ClaimComponentMatches(req[i][j], version))

\* a requirement of two conjunctions matched through the second: in the
\* first, of two components, one matches and the other does not
C1_Witness ==
    /\ semverOp = "matches"
    /\ Len(req) = 2
    /\ Len(req[1]) = 2
    /\ ClaimComponentMatches(req[1][1], version)
    /\ ~ClaimComponentMatches(req[1][2], version)
    /\ matched

CaretCleared(a) ==
    IF MajorAboveZero(a) THEN [a EXCEPT !.minor = None, !.patch = None]
    ELSE [a EXCEPT !.patch = None]

\* C2: Caret(b) matches a iff a >= b and a with patch cleared (minor too when
\* a.major > 0) is <= b; for fully numeric versions that is: same major, and
\* (minor, patch) >= b's when the major is positive, same minor and patch >=
\* b's when the major is 0. So ^1.2.3 matches each 1.x.y >= 1.2.3 and nothing
\* of major 2, and ^0.2.3 matches exactly the 0.2.y with y >= 3.
C2_Caret ==
    IsSingleOp("Caret") =>
        LET a == version
            b == req[1][1].version
        IN  /\ matched = (VGe(a, b) /\ VLe(CaretCleared(a), b))
            /\ (IsNumeric(a) /\ IsNumeric(b)) =>
                 matched =
                    (/\ Maj(a) = Maj(b)
                     /\ IF Maj(a) > 0
                        THEN Min(a) > Min(b) \/ (Min(a) = Min(b) /\ Pat(a) >= Pat(b))
                        ELSE Min(a) = Min(b) /\ Pat(a) >= Pat(b))
            /\ (b = V3(1, 2, 3) /\ IsNumeric(a)) =>
                 matched = (Maj(a) = 1 /\ (Min(a) > 2 \/ (Min(a) = 2 /\ Pat(a) >= 3)))
            /\ (b = V3(0, 2, 3) /\ IsNumeric(a)) =>
                 matched = (Maj(a) = 0 /\ Min(a) = 2 /\ Pat(a) >= 3)

\* ^1.2.3 matched against 1.3.0
C2_Witness ==
    /\ IsSingleOp("Caret")
    /\ req[1][1].version = V3(1, 2, 3)
    /\ version = V3(1, 3, 0)
    /\ matched

\* C3: for fully numeric a and b, Tilde(b) matches a iff a.major = b.major,
\* a.minor = b.minor and a.patch >= b.patch.
C3_Tilde ==
    (IsSingleOp("Tilde") /\ IsNumeric(version) /\ IsNumeric(req[1][1].version)) =>
        LET a == version
            b == req[1][1].version
        IN  matched = (Maj(a) = Maj(b) /\ Min(a) = Min(b) /\ Pat(a) >= Pat(b))

\* ~1.2.2 matched against 1.2.3
C3_Witness ==
    /\ IsSingleOp("Tilde")
    /\ req[1][1].version = V3(1, 2, 2)
    /\ version = V3(1, 2, 3)
    /\ matched

\* C4: two versions of equal major, at least one with minor absent, compare
\* Equal whatever their patch components are.
C4_AbsentMinorHidesPatch ==
    (/\ semverOp = "cmp"
     /\ version.major = other.major
     /\ (~version.minor.some \/ ~other.minor.some)) => ordering = "Equal"

(***************************************************************************)
(* Claims about eval's reporting and nesting (checked under Spec)          *)
(***************************************************************************)
\* an eval call has returned
Finished == phase = "idle" /\ calls > 0

\* the last eval call was the first one made on its evaluator
FreshCall == Finished /\ uses = 1

Failed(name) == ~raw.ok /\ raw.err.kind.name = name

\* C5: an eval call that fails emits exactly one diagnostic, its primary
\* location the expression passed to eval and its note the location of the
\* failure, and returns that diagnostic's token; when the failure is
\* AlreadyEmitted it emits nothing and returns the carried token; an eval call
\* that succeeds emits nothing.  Nothing is emitted before eval returns.
C5_EvalReportsOnce ==
    /\ phase = "running" => diags = sinkAtCall
    /\ Finished =>
         IF raw.ok
         THEN diags = sinkAtCall /\ returned = Ok(raw.val)
         ELSE IF Failed("AlreadyEmitted")
         THEN /\ diags = sinkAtCall
              /\ returned = Err(UpstreamGuar)
              /\ lastExpr \in {Exprs[6], Exprs[7]}
         ELSE /\ Len(diags) = Len(sinkAtCall) + 1
              /\ SubSeq(diags, 1, Len(sinkAtCall)) = sinkAtCall
              /\ diags[Len(diags)].span = lastExpr.span
              /\ diags[Len(diags)].note_span = raw.err.span
              /\ diags[Len(diags)].note = msg(raw.err.kind)
              /\ returned = Err(Len(diags))
              /\ lastExpr = Exprs[3] => diags[Len(diags)].note_span = 101
              /\ lastExpr \notin {Exprs[6], Exprs[7]}

\* after a call that reported a failure, a call on an expression holding an
\* already-diagnosed literal returned the upstream token and reported nothing
C5_Witness ==
    /\ Finished
    /\ calls = 2
    /\ lastExpr = Exprs[7]
    /\ Len(diags) = 2
    /\ returned = Err(UpstreamGuar)

\* C6: whatever the number of eval calls made on the same failing constant
\* expression, the sink holds exactly one diagnostic for that failure.
C6_EachFailureSurfacedOnce ==
    (Finished /\ ~raw.ok /\ ~Failed("AlreadyEmitted")) =>
        Cardinality({i \in DOMAIN diags :
            diags[i] = Diagnostic(lastExpr.span, raw.err.span, msg(raw.err.kind))}) = 1

\* C7: on a fresh evaluator, eval fails with RecursionLimitReached exactly
\* when its evaluation nests eval_expr more than RECURSION_LIMIT deep:
\* RECURSION_LIMIT - 1 negations around a literal evaluate, RECURSION_LIMIT
\* negations do not, and parentheses around the operands add no level.
C7_RecursionLimit ==
    FreshCall =>
        /\ Failed("RecursionLimitReached") <=> peak > RECURSION_LIMIT
        /\ peak <= RECURSION_LIMIT + 1
        /\ lastExpr = Exprs[13] => raw.ok /\ peak = RECURSION_LIMIT
        /\ lastExpr = Exprs[14] =>
             Failed("RecursionLimitReached") /\ peak = RECURSION_LIMIT + 1
        /\ lastExpr = Exprs[15] => raw.ok /\ peak = RECURSION_LIMIT

\* a fresh evaluator failed on RECURSION_LIMIT negations around a literal
C7_Witness ==
    /\ FreshCall
    /\ lastExpr = Exprs[14]
    /\ peak = RECURSION_LIMIT + 1
    /\ Failed("RecursionLimitReached")

\* C8: between eval calls the depth counter is back to 0, whatever the calls
\* returned.
C8_DepthBackToZero == phase = "idle" => depth = 0

(***************************************************************************)
(* Claims about folding (checked under FoldSpec)                           *)
(***************************************************************************)
\* the last call evaluated `x op y` on two numeric literals
FoldedArith(x, op, y) == Finished /\ lastExpr = BinaryOfLits(x, op, y)

FitsWord(z) == NatCmp(z, U256_MAX) # "Greater"

\* what a checked operation is to return for the exact result z
Checked(z) == IF FitsWord(z) THEN Ok(IntScalar_new(z)) ELSE Err("ArithmeticOverflow")

\* x * x * ... * x, n factors, stopping at the first product above 2^256 - 1
RECURSIVE PowerUpTo(_, _)
PowerUpTo(x, n) ==
    IF n = 0 THEN U256_ONE
    ELSE LET p == PowerUpTo(x, n - 1)
         IN  IF FitsWord(p) THEN NatMul(p, x) ELSE p

\* x^y, or some number above 2^256 - 1 when x^y is above it: 0 and 1 are
\* their own powers, 2^y has y + 1 bits, and 3^162 > 2^256 already
ExactPower(x, y) ==
    IF y = U256_ZERO THEN U256_ONE
    ELSE IF x = U256_ZERO \/ x = U256_ONE THEN x
    ELSE IF x = <<2>>
    THEN NatPow2(IF NatCmp(y, NatOf(WordBytes * 8)) = "Less" THEN IntOf(y) ELSE WordBytes * 8)
    ELSE IF NatCmp(y, NatOf(162)) = "Less" THEN PowerUpTo(x, IntOf(y))
    ELSE NatPow2(WordBytes * 8)

\* the outcome of the last call as the claim names it
Outcome == IF raw.ok THEN returned ELSE Err(raw.err.kind.name)

\* the same arithmetic on the model checker's own integers
SmallResult(x, op, y) ==
    CASE op = "Add" -> Ok(x + y)
      [] op = "Sub" -> IF x < y THEN Err("ArithmeticOverflow") ELSE Ok(x - y)
      [] op = "Mul" -> Ok(x * y)
      [] op = "Pow" -> IF y = 0 THEN Ok(1) ELSE Ok(x ^ y)
      [] op = "Div" -> IF y = 0 THEN Err("DivisionByZero") ELSE Ok(x \div y)
      [] op = "Rem" -> IF y = 0 THEN Err("DivisionByZero") ELSE Ok(x % y)

\* C9: add, sub, mul and pow return the exact result when it is in
\* 0 .. 2^256 - 1 and fail with ArithmeticOverflow otherwise; div and rem
\* return the truncated quotient and the remainder, and fail with
\* DivisionByZero on a zero divisor.  eval(2 + 3) = 5, eval(2 ** 256) fails
\* with ArithmeticOverflow and eval(1 / 0) with DivisionByZero.
C9_CheckedArithmetic ==
    \A x \in Operands, y \in Operands, op \in ArithOps \cup {"Pow"} :
        FoldedArith(x, op, y) =>
            /\ op = "Add" => Outcome = Checked(NatAdd(x, y))
            /\ op = "Sub" =>
                 IF NatCmp(x, y) = "Less" THEN Outcome = Err("ArithmeticOverflow")
                 ELSE raw.ok /\ NatAdd(returned.val.data, y) = x
            /\ op = "Mul" => Outcome = Checked(NatMul(x, y))
            /\ op = "Pow" => Outcome = Checked(ExactPower(x, y))
            /\ (op \in {"Div", "Rem"} /\ y = U256_ZERO) => Outcome = Err("DivisionByZero")
            /\ (op = "Div" /\ y # U256_ZERO) =>
                 /\ raw.ok
                 /\ NatCmp(NatMul(returned.val.data, y), x) # "Greater"
                 /\ NatCmp(NatMul(NatAdd(returned.val.data, U256_ONE), y), x) = "Greater"
            /\ (op = "Rem" /\ y # U256_ZERO) =>
                 /\ raw.ok
                 /\ NatCmp(returned.val.data, y) = "Less"
                 /\ \E q \in {NatDivMod(x, y).q} :
                        NatAdd(NatMul(q, y), returned.val.data) = x
            /\ (x \in SmallOperands /\ y \in SmallOperands) =>
                 LET small == SmallResult(IntOf(x), op, IntOf(y))
                 IN  IF small.ok THEN raw.ok /\ IntOf(returned.val.data) = small.val
                     ELSE Outcome = small
            /\ (x = NatOf(2) /\ op = "Add" /\ y = NatOf(3)) =>
                 returned = Ok(IntScalar_new(NatOf(5)))
            /\ (x = NatOf(2) /\ op = "Pow" /\ y = NatOf(256)) =>
                 Failed("ArithmeticOverflow")
            /\ (x = NatOf(1) /\ op = "Div" /\ y = NatOf(0)) =>
                 Failed("DivisionByZero")
            /\ raw.ok <=> diags = sinkAtCall

\* 2 ** 256 was folded and failed with ArithmeticOverflow
C9_Witness ==
    /\ FoldedArith(NatOf(2), "Pow", NatOf(256))
    /\ Failed("ArithmeticOverflow")
    /\ ~returned.ok

\* the last call evaluated c ? t : f
FoldedTernary(c, t, f) == Finished /\ lastExpr = Ternary(1, c, t, f)

\* the conditions the claim calls nonzero, zero, and failing
CondsNonzero == {Bool(2, TRUE), Num(2, 2), Binary(2, Num(21, 1), "Lt", Num(22, 2))}
CondsZero == {Bool(2, FALSE), Num(2, 0)}

\* what a branch evaluated on its own comes to
BranchOutcome(b) ==
    CASE b.kind = "Lit" -> Ok(from_be_bytes(b.lit.bytes))
      [] b.kind = "Call" -> Err("UnsupportedExpr")
      [] b.kind = "Binary" -> Err("DivisionByZero")
      [] b.kind = "Ident" /\ b.var = "N" -> Err("NonConstantVar")
      [] b.kind = "Ident" /\ b.var = "K" -> Err("DivisionByZero")
      [] b.kind = "Ident" /\ b.var = "SELF" -> Err("RecursionLimitReached")

Entered(span) == \E i \in DOMAIN trace : trace[i] = span

\* C10: the condition is evaluated first, then the selected branch only (the
\* true-branch iff the condition is nonzero), whose result is the ternary's;
\* the other branch is never entered, so its failure neither fails the
\* ternary nor emits a diagnostic.  eval(true ? 1 : nonConstant) returns 1.
C10_TernaryIsLazy ==
    \A c \in Conds(2), t \in Branches(3, 1), f \in Branches(4, 2) :
        FoldedTernary(c, t, f) =>
            /\ Len(trace) >= 2 /\ trace[1] = 1 /\ trace[2] = c.span
            /\ c \in CondsNonzero =>
                 /\ Entered(t.span) /\ ~Entered(f.span)
                 /\ Outcome = BranchOutcome(t)
            /\ c \in CondsZero =>
                 /\ Entered(f.span) /\ ~Entered(t.span)
                 /\ Outcome = BranchOutcome(f)
            /\ c \notin CondsNonzero \cup CondsZero =>
                 /\ ~Entered(t.span) /\ ~Entered(f.span)
                 /\ Outcome = Err("NonConstantVar")
            /\ raw.ok <=> diags = sinkAtCall
            /\ (c = Bool(2, TRUE) /\ t = Num(3, 1) /\ f = Ident(4, "N")) =>
                 returned = Ok(IntScalar_new(NatOf(1)))

\* true ? 1 : N was folded to 1 although N is not a constant
C10_Witness ==
    /\ FoldedTernary(Bool(2, TRUE), Num(3, 1), Ident(4, "N"))
    /\ returned = Ok(IntScalar_new(NatOf(1)))
    /\ diags = sinkAtCall

(***************************************************************************)
(* Claims about termination (checked under CycleSpec)                      *)
(***************************************************************************)
\* an activation has just returned a failure
FailureReturned == phase = "running" /\ ret # None /\ ~ret.val.ok

\* the step after a failure leaves an activation, or leaves eval; it enters
\* no further operand
FailureAborts ==
    FailureReturned => (phase' = "idle" \/ Len(stack') < Len(stack))

\* how the last call on a cyclic constant ended
CyclicOutcome ==
    Finished =>
        /\ ~raw.ok
        /\ Len(trace) <= 2 * (RECURSION_LIMIT + 1)
        /\ lastExpr = CycleExprs[4] => Failed("DivisionByZero") /\ ~Entered(165)
        /\ lastExpr # CycleExprs[4] => Failed("RecursionLimitReached")
        /\ lastExpr = CycleExprs[3] => ~Entered(153)
        /\ lastExpr = CycleExprs[6] => ~Entered(63)

\* C11: every eval call returns, also on constants whose initializers refer
\* to themselves or to each other in a cycle: the call ends with a failure,
\* RecursionLimitReached unless another failure comes first, never more
\* than RECURSION_LIMIT + 1 activations deep, and once an activation has
\* failed no further operand is evaluated.
C11_EvalTerminates ==
    /\ (phase = "running") ~> (phase = "idle")
    /\ [](Len(stack) <= RECURSION_LIMIT + 1)
    /\ []CyclicOutcome
    /\ [][FailureAborts]_vars

\* a reused evaluator returned RecursionLimitReached for A = B, B = A
C11_Witness ==
    /\ Finished
    /\ uses = 2
    /\ lastExpr = CycleExprs[2]
    /\ Failed("RecursionLimitReached")
    /\ Entered(131) /\ Entered(141)

====
